---- MODULE Spec2Model ----
(***************************************************************************)
(* Model of app.py, the retail analytics dashboard: the cached synthetic   *)
(* data generator load_data, the sidebar filters, the boolean-mask filter  *)
(* that yields filtered_df, the KPI / groupby aggregates, the table, the   *)
(* CSV export and the three bottom metrics.  One action is one complete    *)
(* run of the script, started by a new session or by one widget change.    *)
(*                                                                         *)
(* Dates are day offsets from 2025-01-01.  Unit_Price is a whole number,   *)
(* Discount is in percent, and Revenue is in hundredths, so that           *)
(* Revenue = Quantity * Unit_Price * (100 - Discount) is exact.            *)
(***************************************************************************)
EXTENDS Integers, Sequences, FiniteSets, TLC

(* ---- bounds of the model (the source uses 365 days x 100 tiles) ------- *)
n_days == 3
records_per_day == 2
PriceLevels == 3
DiscountLevels == 3
NumStreams == 4
HeadRows == 2

VARIABLES
    mt_stream,              \* the pseudo-random stream np.random.seed(42) selects
    cache,                  \* st.cache_data store of load_data: <<>> or <<df>>
    n_generated,            \* executions of the body of load_data
    first_df,               \* the dataset the first execution returned
    df,                     \* module-level df of the current run
    date_range, regions, categories,      \* sidebar widget values
    filtered_df,
    kpi_revenue, kpi_orders, kpi_customers, kpi_avg_order,
    daily_revenue, region_rev,
    table,                  \* rows handed to st.dataframe
    csv,                    \* csv_buffer.getvalue(): header row, then data rows
    top_category_revenue, top_region, busiest_day,
    raised                  \* exception that ended the run, or "none"

vars == <<mt_stream, cache, n_generated, first_df, df, date_range, regions,
          categories, filtered_df, kpi_revenue, kpi_orders, kpi_customers,
          kpi_avg_order, daily_revenue, region_rev, table, csv,
          top_category_revenue, top_region, busiest_day, raised>>

(* ---- numpy random stream ---------------------------------------------- *)
\* One step of the generator; the Mersenne Twister is abstracted by a small
\* congruential generator, and the stream for seed 42 by a choice of stream.
NextRaw(x) == (61 * x + 47) % 101

RECURSIVE RawDraws(_, _)
RawDraws(x, k) == IF k = 0 THEN <<>> ELSE <<NextRaw(x)>> \o RawDraws(NextRaw(x), k - 1)

randint(low, high, raw) == low + (raw % (high - low))
choice(options, raw) == options[1 + (raw % Len(options))]
uniform(low, step, levels, raw) == low + step * (raw % levels)

RegionChoices == <<"North America", "Europe", "Asia", "LATAM">>
CategoryChoices == <<"Electronics", "Clothing", "Home", "Books">>
ProductChoices == <<"iPhone", "T-Shirt", "Sofa", "Novel">>

(* ---- load_data --------------------------------------------------------- *)
\* pd.date_range(start="2025-01-01", periods=n_days)
date_range_periods(periods) == [d \in 1..periods |-> d - 1]

\* np.repeat(A, reps): every element of A repeated reps times in place
repeat_each(A, reps) == [i \in 1..(Len(A) * (IF reps > 0 THEN reps ELSE 0)) |-> A[1 + ((i - 1) \div reps)]]

\* np.tile(A, reps): the whole of A, repeated reps times
RECURSIVE tile(_, _)
tile(A, reps) == IF reps <= 0 THEN <<>> ELSE A \o tile(A, reps - 1)

\* range(stop - start): the same count of ids, 0-based
range_from_zero(start, stop) == [i \in 1..(IF stop > start THEN stop - start ELSE 0) |-> i - 1]

\* range(start, stop)
range(start, stop) == [i \in 1..(IF stop > start THEN stop - start ELSE 0) |-> start + i - 1]

revenue_of(quantity, unit_price, discount) == quantity * unit_price * (100 - discount)

\* the body of load_data, with the stream the seed selects
generate(stream) ==
    LET n     == n_days * records_per_day
        dates == date_range_periods(n_days)
        raw   == RawDraws(stream, 7 * n)
        Date        == tile(dates, records_per_day)
        Order_ID    == range(1, n + 1)
        Customer_ID == [i \in 1..n |-> randint(1000, 5000, raw[i])]
        Region      == [i \in 1..n |-> choice(RegionChoices, raw[n + i])]
        Category    == [i \in 1..n |-> choice(CategoryChoices, raw[2 * n + i])]
        Product     == [i \in 1..n |-> choice(ProductChoices, raw[3 * n + i])]
        Quantity    == [i \in 1..n |-> randint(1, 10, raw[4 * n + i])]
        Unit_Price  == [i \in 1..n |-> uniform(10, 10, PriceLevels, raw[5 * n + i])]
        Discount    == [i \in 1..n |-> uniform(0, 5, DiscountLevels, raw[6 * n + i])]
    IN  [i \in 1..n |->
            [Date |-> Date[i], Order_ID |-> Order_ID[i], Customer_ID |-> Customer_ID[i],
             Region |-> Region[i], Category |-> Category[i], Product |-> Product[i],
             Quantity |-> Quantity[i], Unit_Price |-> Unit_Price[i],
             Discount |-> Discount[i],
             Revenue |-> revenue_of(Quantity[i], Unit_Price[i], Discount[i])]]

\* column order of the DataFrame: the dict's insertion order, then Revenue
Columns == <<"Date", "Order_ID", "Customer_ID", "Region", "Category", "Product",
             "Quantity", "Unit_Price", "Discount", "Revenue">>

\* load_data without the cache decorator
cache_always_miss(store) == TRUE

\* @st.cache_data: the body runs on a miss only
cache_miss(store) == store = <<>>
load_data(store, stream) == IF cache_miss(store) THEN generate(stream) ELSE store[1]

(* ---- pandas helpers ----------------------------------------------------- *)
ColumnValues(frame, col) == {frame[i][col] : i \in 1..Len(frame)}

\* Series.unique(): distinct values in order of first appearance
RECURSIVE unique(_, _)
unique(frame, col) ==
    IF frame = <<>> THEN <<>>
    ELSE LET init == unique(SubSeq(frame, 1, Len(frame) - 1), col)
             v    == frame[Len(frame)][col]
         IN  IF \E j \in 1..Len(init) : init[j] = v THEN init ELSE Append(init, v)

SeqRange(s) == {s[i] : i \in 1..Len(s)}

SetMin(S) == CHOOSE x \in S : \A y \in S : x <= y
SetMax(S) == CHOOSE x \in S : \A y \in S : x >= y

\* an empty selection read as "no filter"
isin_or_unfiltered(value, values) == values = {} \/ value \in values
isin(value, values) == value \in values

\* frame[mask]: the rows whose mask entry is TRUE, in frame order
RECURSIVE boolean_index(_, _)
boolean_index(frame, mask) ==
    IF frame = <<>> THEN <<>>
    ELSE LET n    == Len(frame)
             init == boolean_index(SubSeq(frame, 1, n - 1), SubSeq(mask, 1, n - 1))
         IN  IF mask[n] THEN Append(init, frame[n]) ELSE init

ge_start(date, start) == date >= start
\* an exclusive upper date bound
lt_end(date, end) == date < end
le_end(date, end) == date <= end

filter_mask(frame, dr, regs, cats) ==
    [i \in 1..Len(frame) |->
        /\ ge_start(frame[i].Date, dr[1])
        /\ le_end(frame[i].Date, dr[2])
        /\ isin(frame[i].Region, regs)
        /\ isin(frame[i].Category, cats)]

filter(frame, dr, regs, cats) == boolean_index(frame, filter_mask(frame, dr, regs, cats))

RECURSIVE column_sum(_, _)
column_sum(frame, col) ==
    IF frame = <<>> THEN 0
    ELSE frame[Len(frame)][col] + column_sum(SubSeq(frame, 1, Len(frame) - 1), col)

nunique(frame, col) == Cardinality(ColumnValues(frame, col))

\* a / b on floats, kept as the exact fraction; b = 0 gives nan
NaN == [num |-> 0, den |-> 0]
true_div(a, b) == IF b = 0 THEN NaN ELSE [num |-> a, den |-> b]
\* the division without its guard
avg_order_unguarded(revenue, orders) == true_div(revenue, orders)
avg_order(revenue, orders) == IF orders > 0 THEN true_div(revenue, orders) ELSE [num |-> 0, den |-> 1]

\* str < str on the labels of the three choice lists (code-point order)
LexRank ==
    ("Asia" :> 1) @@ ("Books" :> 2) @@ ("Clothing" :> 3) @@ ("Electronics" :> 4) @@
    ("Europe" :> 5) @@ ("Home" :> 6) @@ ("LATAM" :> 7) @@ ("North America" :> 8) @@
    ("Novel" :> 9) @@ ("Sofa" :> 10) @@ ("T-Shirt" :> 11) @@ ("iPhone" :> 12)

\* order of the dates: the day offset itself
DateRank == [d \in 0..(n_days - 1) |-> d]

\* insert v into the sorted sequence s, after the entries that are not larger
RECURSIVE insert_sorted(_, _, _)
insert_sorted(s, v, rank) ==
    IF s = <<>> THEN <<v>>
    ELSE IF rank[s[Len(s)]] <= rank[v] THEN Append(s, v)
    ELSE Append(insert_sorted(SubSeq(s, 1, Len(s) - 1), v, rank), s[Len(s)])

RECURSIVE sort_values(_, _)
sort_values(s, rank) ==
    IF s = <<>> THEN <<>>
    ELSE insert_sorted(sort_values(SubSeq(s, 1, Len(s) - 1), rank), s[Len(s)], rank)

\* groupby(col, sort=False): the group keys in order of first appearance
group_keys_unsorted(frame, col, rank) == unique(frame, col)

\* groupby(col): the group keys, sorted (sort=True is the default)
group_keys(frame, col, rank) == sort_values(unique(frame, col), rank)

rows_where(frame, col, key) ==
    boolean_index(frame, [i \in 1..Len(frame) |-> frame[i][col] = key])

\* frame.groupby(col)['Revenue'].sum(): one (key, value) entry per group
groupby_sum(frame, col, rank) ==
    LET ks == group_keys(frame, col, rank)
    IN  [j \in 1..Len(ks) |->
            [key |-> ks[j], value |-> column_sum(rows_where(frame, col, ks[j]), "Revenue")]]

SeriesValues(series) == {series[j].value : j \in 1..Len(series)}

\* Series.max(): nan for the empty series
series_max(series) ==
    IF series = <<>> THEN NaN ELSE [num |-> SetMax(SeriesValues(series)), den |-> 1]

\* Series.idxmax(): label of the first entry holding the maximum;
\* raises ValueError on the empty series
idxmax_raises(series) == series = <<>>
idxmax(series) ==
    LET m == SetMax(SeriesValues(series))
        j == SetMin({k \in 1..Len(series) : series[k].value = m})
    IN  series[j].key

\* frame[cols]
select_columns(frame, cols) ==
    [i \in 1..Len(frame) |-> [c \in SeqRange(cols) |-> frame[i][c]]]

\* frame.head(n)
head(frame, n) == SubSeq(frame, 1, IF Len(frame) < n THEN Len(frame) ELSE n)

TableColumns == <<"Date", "Region", "Category", "Product", "Quantity", "Unit_Price", "Revenue">>

\* the export cut like the table: frame.head(n).to_csv(...)
to_csv_head(frame) ==
    <<Columns>> \o [i \in 1..Len(head(frame, HeadRows)) |-> [j \in 1..Len(Columns) |-> frame[i][Columns[j]]]]

\* frame.to_csv(buffer, index=False): header row of the frame's columns, then
\* one row per record with that record's value of every column
to_csv(frame) ==
    <<Columns>> \o [i \in 1..Len(frame) |-> [j \in 1..Len(Columns) |-> frame[i][Columns[j]]]]

(* ---- the script --------------------------------------------------------- *)
Streams == 42..(42 + NumStreams - 1)

Init ==
    /\ mt_stream \in Streams
    /\ cache = <<>>
    /\ n_generated = 0
    /\ first_df = <<>>
    /\ df = <<>>
    /\ date_range = <<>>
    /\ regions = {}
    /\ categories = {}
    /\ filtered_df = <<>>
    /\ kpi_revenue = 0
    /\ kpi_orders = 0
    /\ kpi_customers = 0
    /\ kpi_avg_order = [num |-> 0, den |-> 1]
    /\ daily_revenue = <<>>
    /\ region_rev = <<>>
    /\ table = <<>>
    /\ csv = <<>>
    /\ top_category_revenue = NaN
    /\ top_region = <<>>
    /\ busiest_day = <<>>
    /\ raised = "none"

\* line 49: df = load_data(), through the cache
CallLoadData ==
    /\ df' = load_data(cache, mt_stream)
    /\ cache' = IF cache_miss(cache) THEN <<df'>> ELSE cache
    /\ n_generated' = IF cache_miss(cache) THEN n_generated + 1 ELSE n_generated
    /\ first_df' = IF cache_miss(cache) /\ n_generated = 0 THEN df' ELSE first_df
    /\ UNCHANGED mt_stream

\* lines 66-133 for the widget values dr, regs, cats
RunScript(dr, regs, cats) ==
    /\ CallLoadData
    /\ date_range' = dr
    /\ regions' = regs
    /\ categories' = cats
    /\ filtered_df' = filter(df', dr, regs, cats)
    /\ kpi_revenue' = column_sum(filtered_df', "Revenue")
    /\ kpi_orders' = Len(filtered_df')
    /\ kpi_customers' = nunique(filtered_df', "Customer_ID")
    /\ kpi_avg_order' = avg_order(kpi_revenue', kpi_orders')
    /\ daily_revenue' = groupby_sum(filtered_df', "Date", DateRank)
    /\ region_rev' = groupby_sum(filtered_df', "Region", LexRank)
    /\ table' = head(select_columns(filtered_df', TableColumns), HeadRows)
    /\ csv' = to_csv(filtered_df')
    /\ top_category_revenue' = series_max(groupby_sum(filtered_df', "Category", LexRank))
    /\ LET by_region == region_rev'       \* line 132 recomputes the same sums
           by_day    == daily_revenue'    \* line 133 likewise
       IN  IF idxmax_raises(by_region)
           THEN /\ raised' = "ValueError"
                /\ top_region' = <<>>
                /\ busiest_day' = <<>>
           ELSE /\ raised' = IF idxmax_raises(by_day) THEN "ValueError" ELSE "none"
                /\ top_region' = <<idxmax(by_region)>>
                /\ busiest_day' = IF idxmax_raises(by_day) THEN <<>> ELSE <<idxmax(by_day)>>

\* a browser session opens the page: every widget is at its default
SessionStart ==
    LET d == load_data(cache, mt_stream)
    IN  RunScript(<<SetMin(ColumnValues(d, "Date")), SetMax(ColumnValues(d, "Date"))>>,
                  SeqRange(unique(d, "Region")), SeqRange(unique(d, "Category")))

Started == df # <<>>

\* the user picks a date range in the sidebar
ChangeDateRange(start, end) ==
    /\ Started
    /\ start \in SetMin(ColumnValues(df, "Date"))..SetMax(ColumnValues(df, "Date"))
    /\ end \in SetMin(ColumnValues(df, "Date"))..SetMax(ColumnValues(df, "Date"))
    /\ RunScript(<<start, end>>, regions, categories)

Toggle(selection, option) ==
    IF option \in selection THEN selection \ {option} ELSE selection \cup {option}

\* the user adds or removes one region in the multiselect
ToggleRegion(r) ==
    /\ Started
    /\ r \in SeqRange(unique(df, "Region"))
    /\ RunScript(date_range, Toggle(regions, r), categories)

\* the user adds or removes one category in the multiselect
ToggleCategory(c) ==
    /\ Started
    /\ c \in SeqRange(unique(df, "Category"))
    /\ RunScript(date_range, regions, Toggle(categories, c))

Next ==
    \/ SessionStart
    \/ \E start \in 0..(n_days - 1), end \in 0..(n_days - 1) : ChangeDateRange(start, end)
    \/ \E r \in SeqRange(RegionChoices) : ToggleRegion(r)
    \/ \E c \in SeqRange(CategoryChoices) : ToggleCategory(c)

Spec == Init /\ [][Next]_vars

(* ======================= properties ===================================== *)
Retained(r) ==
    /\ date_range[1] <= r.Date
    /\ r.Date <= date_range[2]
    /\ r.Region \in regions
    /\ r.Category \in categories

PositionIn(frame, r) == CHOOSE k \in 1..Len(frame) : frame[k] = r

\* C1: the filtered view holds exactly the records of the dataset whose date
\* lies in [start_date, end_date] (both ends included) and whose region and
\* category are selected, in the dataset's relative order.
C1_FilteredViewExact ==
    Started =>
        /\ SeqRange(filtered_df) = {df[i] : i \in {k \in 1..Len(df) : Retained(df[k])}}
        /\ Len(filtered_df) = Cardinality({k \in 1..Len(df) : Retained(df[k])})
        /\ \A i, j \in 1..Len(filtered_df) :
              i < j => PositionIn(df, filtered_df[i]) < PositionIn(df, filtered_df[j])

\* a view of several records that keeps records dated on both ends of a
\* proper range and drops records by date and by region
C1_Witness ==
    /\ Started
    /\ date_range[1] < date_range[2]
    /\ \E i, j \in 1..Len(filtered_df) :
          /\ i < j
          /\ filtered_df[i].Date = date_range[2]
          /\ filtered_df[j].Date = date_range[1]
    /\ \E k \in 1..Len(df) : df[k].Date > date_range[2]
    /\ \E k \in 1..Len(df) : Retained([df[k] EXCEPT !.Region = CHOOSE r \in regions : TRUE])
                             /\ df[k].Region \notin regions

\* C2: a run whose filtered view is empty ends without an exception (the
\* undefined-on-empty aggregates are guarded by the order count).
C2_EmptyViewRunsWithoutException ==
    (Started /\ kpi_orders = 0) => raised = "none"

\* C3: with no region selected, no category selected or start_date after
\* end_date the filter yields the empty view, with order count 0 and total
\* revenue 0, and the run goes on past the filter to the export.
C3_ContradictoryCriteriaGiveEmptyView ==
    (Started /\ (regions = {} \/ categories = {} \/ date_range[1] > date_range[2])) =>
        /\ filtered_df = <<>>
        /\ kpi_orders = 0
        /\ kpi_revenue = 0
        /\ Len(csv) = 1

\* start_date after end_date while regions and categories are all selected
C3_Witness ==
    /\ Started
    /\ date_range[1] > date_range[2]
    /\ regions = ColumnValues(df, "Region")
    /\ categories = ColumnValues(df, "Category")
    /\ filtered_df = <<>>

\* C4: the body of load_data runs at most once, and every run reads the
\* dataset that first execution produced.
C4_GeneratedOnceAndUnchanged ==
    /\ n_generated <= 1
    /\ Started => (df = first_df /\ cache = <<first_df>>)

\* a filtered rerun after the dataset was generated
C4_Witness ==
    /\ Started
    /\ n_generated = 1
    /\ filtered_df # <<>>
    /\ Len(filtered_df) < Len(df)
    /\ df = first_df

\* C5 as stated: the export has one row per record of the view under a header
\* of exactly the seven fields date, region, category, product, quantity,
\* unit_price, revenue.
C5_ExportSevenFields ==
    Started =>
        /\ Len(csv) = 1 + Len(filtered_df)
        /\ csv[1] = <<"Date", "Region", "Category", "Product", "Quantity", "Unit_Price", "Revenue">>

\* C5 amended: the export has one row per record of the view, all of them,
\* under a header of all ten fields of the record, and row i carries the ten
\* values of record i.
C5_ExportAllTenFields ==
    Started =>
        /\ Len(csv) = 1 + Len(filtered_df)
        /\ csv[1] = <<"Date", "Order_ID", "Customer_ID", "Region", "Category",
                      "Product", "Quantity", "Unit_Price", "Discount", "Revenue">>
        /\ \A i \in 1..Len(filtered_df) :
              LET r == filtered_df[i]
              IN  csv[i + 1] = <<r.Date, r.Order_ID, r.Customer_ID, r.Region, r.Category,
                                 r.Product, r.Quantity, r.Unit_Price, r.Discount, r.Revenue>>

\* a view longer than the table shows: the table is cut, the export is not
C5_Witness ==
    /\ Started
    /\ Len(filtered_df) > HeadRows
    /\ Len(table) = HeadRows
    /\ Len(csv) = 1 + Len(filtered_df)

\* C7: the dataset has n_days * records_per_day records and the i-th record
\* has order_id i.
C7_DenseOrderIds ==
    Started =>
        /\ Len(df) = n_days * records_per_day
        /\ \A i \in 1..Len(df) : df[i].Order_ID = i

C7_Witness ==
    /\ n_generated = 1
    /\ Len(df) = n_days * records_per_day
    /\ Len(df) > 1
    /\ df[Len(df)].Order_ID = Len(df)

RegionTotal(r) == column_sum(SelectSeq(filtered_df, LAMBDA x : x.Region = r), "Revenue")
RegionsInView == ColumnValues(filtered_df, "Region")

TopRegionIsFirstMaximum(order) ==
    (Started /\ filtered_df # <<>>) =>
        /\ Len(top_region) = 1
        /\ top_region[1] \in RegionsInView
        /\ \A r \in RegionsInView : RegionTotal(r) <= RegionTotal(top_region[1])
        /\ \A r \in RegionsInView :
              RegionTotal(r) = RegionTotal(top_region[1]) =>
                  PositionIn(order, top_region[1]) <= PositionIn(order, r)

\* C8 as stated: the top region has the maximal summed revenue and, among the
\* regions tied for it, comes first in the declaration order North America,
\* Europe, Asia, LATAM.
C8_TopRegionTieDeclarationOrder ==
    TopRegionIsFirstMaximum(<<"North America", "Europe", "Asia", "LATAM">>)

\* C8 amended: the top region has the maximal summed revenue and, among the
\* regions tied for it, comes first in ascending order of the region names:
\* Asia, Europe, LATAM, North America.
C8_TopRegionTieNameOrder ==
    TopRegionIsFirstMaximum(<<"Asia", "Europe", "LATAM", "North America">>)

\* two regions tie for the maximum
C8_Witness ==
    /\ Started
    /\ raised = "none"
    /\ \E r \in RegionsInView :
          /\ r # top_region[1]
          /\ RegionTotal(r) = RegionTotal(top_region[1])

\* C9: the average order value is total revenue / order count on a non-empty
\* view and 0 on the empty view, whose total revenue is 0; it is never nan.
C9_AverageOrderValue ==
    Started =>
        /\ kpi_avg_order # [num |-> 0, den |-> 0]
        /\ filtered_df # <<>> =>
              kpi_avg_order = [num |-> column_sum(filtered_df, "Revenue"), den |-> Len(filtered_df)]
        /\ filtered_df = <<>> => (kpi_avg_order = [num |-> 0, den |-> 1] /\ kpi_revenue = 0)

\* the empty view
C9_Witness ==
    /\ Started
    /\ filtered_df = <<>>
    /\ kpi_orders = 0
    /\ kpi_avg_order = [num |-> 0, den |-> 1]

\* C10: the record at 0-based index i is dated start_date + (i mod n_days),
\* and every date of the window is carried by records_per_day records.
C10_DatesTiled ==
    Started =>
        /\ \A i \in 1..Len(df) : df[i].Date = (i - 1) % n_days
        /\ \A d \in 0..(n_days - 1) :
              Cardinality({i \in 1..Len(df) : df[i].Date = d}) = records_per_day

\* a record whose date differs from floor(i / records_per_day)
C10_Witness ==
    /\ Started
    /\ \E i \in 1..Len(df) :
          /\ df[i].Date = (i - 1) % n_days
          /\ df[i].Date # (i - 1) \div records_per_day
    /\ df[1].Date + 1 = df[2].Date

====
